---- MODULE Spec2Model ----
(***************************************************************************)
(* Session registry and idle timers of the Kiwi backend                    *)
(* (backend/server.py, backend/browser_controller.py).                     *)
(*                                                                         *)
(* Threads of the program:                                                 *)
(*   - the request thread: FastAPI runs the `async def` route handlers on  *)
(*     one event loop and every handler blocks it in run_async             *)
(*     (future.result()), so one request is handled at a time;             *)
(*   - the Playwright loop thread: runs the coroutines of                  *)
(*     browser_controller, interleaved at their awaits;                    *)
(*   - one thread per started threading.Timer (timeout_handler).           *)
(* Time is not measured: a started, uncancelled timer may expire at any    *)
(* moment, which stands for every value of SESSION_TIMEOUT_SECONDS and     *)
(* every scheduling delay.                                                 *)
(***************************************************************************)
EXTENDS Integers, Sequences, FiniteSets, Bags, TLC

\* server.py:68
MAX_CONCURRENT_SESSIONS == 4

\* Bounds of the model.
MaxIds == 5      \* uuid4() values drawn by start_session
MaxEvents == 6   \* /start, /click and /screenshot requests received, timers
                 \* whose interval elapses and pages that close on their own

VARIABLES
    sessions,        \* browser_controller._sessions: the ids registered (id -> its page)
    pageUrl,         \* the open pages of the browser: page (named by its id) -> URL
    browser,         \* browser_controller._browser is launched
    session_timers,  \* server.session_timers: ordered dict, Seq of [sid, tm],
                     \*   tm the Timer object: [st, cancelled, did]
    strays,          \* the Timer threads still running that session_timers no
                     \*   longer refers to: a bag of [sid, st, cancelled, did]
    nextId,          \* the next uuid4()
    events,          \* requests, timer expiries and page crashes so far
    h,               \* the request thread: the handler in progress and its locals
    co,              \* the coroutine the handler submitted to the Playwright loop
    active,          \* history: registered ids that received a /click or a /screenshot
    closed,          \* history: ids that close_session removed from the registry
    completed,       \* history: ids of which a timeout_handler ran to its end
    pageThreads,     \* history: the threads that have called the browser or a page
    cl,              \* one call of click_at followed alone: its arguments, the
                     \*   document it meets and the coroutine's locals
    ln,              \* the start_session calls followed alone up to new_page:
                     \*   the module globals of browser_controller and the
                     \*   browser processes launched
    ts               \* the take_screenshot calls followed alone on a live
                     \*   page: the captures attempted in each call

vars == <<sessions, pageUrl, browser, session_timers, strays, nextId, events,
          h, co, active, closed, completed, pageThreads, cl, ln, ts>>

\* The variables of the coroutines followed alone.
avars == <<cl, ln, ts>>

\* The variables a coroutine followed alone leaves as they are.
mvars == <<sessions, pageUrl, browser, session_timers, strays, nextId, events,
           h, co, active, closed, completed, pageThreads>>

----------------------------------------------------------------------------
\* Python dict operations on session_timers (insertion ordered).

Keys(d) == {d[i].sid : i \in DOMAIN d}

DictGet(d, s) == (CHOOSE e \in {d[i] : i \in DOMAIN d} : e.sid = s).tm

DictSet(d, s, t) ==
    IF s \in Keys(d)
    THEN [i \in DOMAIN d |-> IF d[i].sid = s THEN [sid |-> s, tm |-> t] ELSE d[i]]
    ELSE Append(d, [sid |-> s, tm |-> t])

DictDel(d, s) == SelectSeq(d, LAMBDA e : e.sid # s)

\* page.is_closed()
is_closed(s) == s \notin DOMAIN pageUrl

\* The pages with page s closed.
PagesWithout(s) == [p \in (DOMAIN pageUrl) \ {s} |-> pageUrl[p]]

\* URLs a page can show; "" is what get_current_url answers for no page.
Urls == {"u1", "u2"}

----------------------------------------------------------------------------
\* threading.Timer. st is where the object's thread is: "new" (not started),
\* "waiting" (in finished.wait(interval)), "fired" (the interval elapsed with
\* the finished event unset: timeout_handler is about to run), "c168", "c175",
\* "c177" (inside close_session), "t128", "t129" (lines of timeout_handler),
\* "dead" (ended). did records what the timer's close_session found: "noop"
\* (no such session), or the session, which it closed, "armed" if cancel()
\* had not been called on the timer by then and "replaced" if it had.

NewTimer == [st |-> "new", cancelled |-> FALSE, did |-> "no"]

\* Timer.is_alive(): the thread was started and has not ended.
is_alive(t) == t.st \in {"waiting", "fired", "c168", "c175", "c177", "t128", "t129"}

\* Timer.cancel(): sets the finished event. A thread still in
\* finished.wait() wakes, sees the event and ends without calling the
\* function; one that already passed the test runs the function all the same.
cancel(t) == [t EXCEPT !.cancelled = TRUE,
                       !.st = IF t.st = "waiting" THEN "dead" ELSE t.st]

\* Timer.start()
start(t) == [t EXCEPT !.st = IF t.cancelled THEN "dead" ELSE "waiting"]

\* A Timer object as a stray thread of session s, and back.
Stray(s, t) == [sid |-> s, st |-> t.st, cancelled |-> t.cancelled, did |-> t.did]
Unstray(r) == [st |-> r.st, cancelled |-> r.cancelled, did |-> r.did]

\* The strays with the Timer t of session s added, if its thread is still
\* running: an object nothing refers to any more and whose thread is not
\* running is garbage.
Orphan(b, s, t) == IF is_alive(t) THEN b (+) SetToBag({Stray(s, t)}) ELSE b

\* The Timer threads: <<"tab", s>> is the object session_timers holds for s,
\* <<"stray", r>> a stray.
Threads == {<<"tab", s>> : s \in Keys(session_timers)}
           \cup {<<"stray", r>> : r \in BagToSet(strays)}

Sid(th) == IF th[1] = "tab" THEN th[2] ELSE th[2].sid
Obj(th) == IF th[1] = "tab" THEN DictGet(session_timers, th[2]) ELSE Unstray(th[2])

\* session_timers after thread th's object became t.
TabPut(th, t) ==
    IF th[1] = "tab" THEN DictSet(session_timers, th[2], t) ELSE session_timers

\* strays after thread th's object became t.
StrayPut(th, t) ==
    IF th[1] = "tab" THEN strays
    ELSE Orphan(strays (-) SetToBag({th[2]}), Sid(th), t)

----------------------------------------------------------------------------
\* click_at followed alone is not in progress.
NoInfo == [found |-> FALSE, cx2 |-> 0, cy2 |-> 0, isIframe |-> FALSE,
           isClickable |-> FALSE]

NoClick == [x |-> 0, y |-> 0, stack |-> <<>>, frames |-> <<>>, pc |-> "none",
            info |-> NoInfo, ax |-> 0, ay |-> 0, i |-> 0, clicks |-> <<>>,
            marks |-> 0, ret |-> "none", threw |-> "none"]

\* start_session followed alone is not in progress.
NoLaunch == [pc |-> "none", installed |-> FALSE, playwright |-> FALSE,
             browser |-> 0, procs |-> 0, probes |-> 0, shared |-> <<>>,
             creates |-> 0, pages |-> <<>>]

\* take_screenshot followed alone is not in progress.
NoShot == [pc |-> "none", figma |-> FALSE, timeout |-> 0, attempts |-> <<>>,
           done |-> <<>>]

Idle == [pc |-> "idle", op |-> "none", sid |-> 0, reset |-> FALSE,
         startNow |-> FALSE, st0 |-> "none", old_url |-> "",
         new_url |-> "", ca |-> "", oldest |-> 0, status |-> 0, code |-> "",
         body |-> "", rsid |-> 0]

NoCo == [pc |-> "none", id |-> 0, res |-> "", tried |-> <<>>]

Init ==
    /\ sessions = {}
    /\ pageUrl = <<>>
    /\ browser = FALSE
    /\ session_timers = <<>>
    /\ strays = EmptyBag
    /\ nextId = 1
    /\ events = 0
    /\ h = Idle
    /\ co = NoCo
    /\ active = {}
    /\ closed = {}
    /\ completed = {}
    /\ pageThreads = {}
    /\ cl = NoClick
    /\ ln = NoLaunch
    /\ ts = NoShot

----------------------------------------------------------------------------
\* run_async with the coroutine called on the thread of the caller.
run_async_inline(caller) == caller

\* run_async (58-61): run_coroutine_threadsafe(coro, playwright_loop) and
\* future.result(): the thread the coroutine of a caller runs on.
run_async(caller) == "loop"

----------------------------------------------------------------------------
\* browser_controller.close_session (lines 163-185), in the pieces between
\* which the Playwright loop can run another coroutine.

\* close_lookup as `page = _sessions[session_id]`: KeyError for an unknown id.
close_lookup_strict(S, id) == [found |-> id \in S, err |-> id \notin S]

\* page = _sessions.get(session_id); if page: ... else: "not found" (168-170, 184)
close_lookup(S, id) == [found |-> id \in S, err |-> FALSE]

\* close_del that closes the page and leaves the registry entry.
close_del_keep(S, id) == [S |-> S, err |-> FALSE]

\* del _sessions[session_id] inside the try (177); its KeyError is caught
\* (179) and the entry removed only if present (182-183).
close_del(S, id) == [S |-> S \ {id}, err |-> FALSE]

\* The whole coroutine run without another coroutine in between, on a
\* registry S whose open pages are P.
close_session(S, P, id) ==
    LET l == close_lookup(S, id) IN
    IF l.err THEN [S |-> S, P |-> P, err |-> TRUE]
    ELSE IF ~l.found THEN [S |-> S, P |-> P, err |-> FALSE]
    ELSE LET d == close_del(S, id) IN
         [S |-> d.S, P |-> P \ {id}, err |-> d.err]

----------------------------------------------------------------------------
\* The timer threads: threading.Timer.run and timeout_handler (123-129).

\* The object of thread th becomes t.
Step(th, t) ==
    /\ session_timers' = TabPut(th, t)
    /\ strays' = StrayPut(th, t)

\* The interval elapses and the thread finds the finished event unset.
Fire(th) ==
    /\ Obj(th).st = "waiting"
    /\ events < MaxEvents
    /\ Step(th, [Obj(th) EXCEPT !.st = "fired"])
    /\ events' = events + 1
    /\ UNCHANGED <<avars, pageThreads, sessions, pageUrl, browser, nextId, h, co, active,
                   closed, completed>>

\* timeout_check of a handler that only drops the table entry.
timeout_check_never(S, s) == FALSE

\* if session_id in browser_controller._sessions: (126)
timeout_check(S, s) == s \in S

\* ... run_async(browser_controller.close_session(session_id)) (126-127)
T126(th) ==
    /\ Obj(th).st = "fired"
    /\ Step(th, [Obj(th) EXCEPT
            !.st = IF timeout_check(sessions, Sid(th)) THEN "c168" ELSE "t128"])
    /\ UNCHANGED <<avars, pageThreads, sessions, pageUrl, browser, nextId, events, h, co, active,
                   closed, completed>>

\* close_session on the loop, up to `await page.close()` (168-175).
CloseGet(th) ==
    /\ Obj(th).st = "c168"
    /\ LET s == Sid(th)
           t == Obj(th)
           l == close_lookup(sessions, s)
           mark == IF t.cancelled THEN "replaced" ELSE "armed"
       IN IF l.err
          THEN /\ Step(th, [t EXCEPT !.st = "dead"])
               /\ UNCHANGED <<sessions, closed>>
          ELSE IF ~l.found
          THEN /\ Step(th, [t EXCEPT !.st = "t128", !.did = "noop"])
               /\ UNCHANGED <<sessions, closed>>
          ELSE IF is_closed(s)
          THEN /\ sessions' = close_del(sessions, s).S
               /\ closed' = closed \cup {s}
               /\ Step(th, [t EXCEPT !.st = "t128", !.did = mark])
          ELSE /\ Step(th, [t EXCEPT !.st = "c175", !.did = mark])
               /\ UNCHANGED <<sessions, closed>>
    /\ UNCHANGED avars
    /\ pageThreads' = pageThreads \cup {run_async("timer")}
    /\ UNCHANGED <<pageUrl, browser, nextId, events, h, co, active, completed>>

\* The browser closes the page while close_session awaits page.close() (175).
ClosePage(th) ==
    /\ Obj(th).st = "c175"
    /\ pageUrl' = PagesWithout(Sid(th))
    /\ Step(th, [Obj(th) EXCEPT !.st = "c177"])
    /\ UNCHANGED avars
    /\ pageThreads' = pageThreads \cup {run_async("timer")}
    /\ UNCHANGED <<sessions, browser, nextId, events, h, co, active, closed,
                   completed>>

\* close_session resumes: del _sessions[session_id] (177-183).
CloseDel(th) ==
    /\ Obj(th).st = "c177"
    /\ LET s == Sid(th)
           d == close_del(sessions, s)
       IN /\ sessions' = d.S
          /\ closed' = IF s \in sessions THEN closed \cup {s} ELSE closed
          /\ Step(th, [Obj(th) EXCEPT !.st = IF d.err THEN "dead" ELSE "t128"])
    /\ UNCHANGED <<avars, pageThreads, pageUrl, browser, nextId, events, h, co, active, completed>>

\* if session_id in session_timers: (128); if not, timeout_handler returns.
T128(th) ==
    /\ Obj(th).st = "t128"
    /\ IF Sid(th) \in Keys(session_timers)
       THEN /\ Step(th, [Obj(th) EXCEPT !.st = "t129"])
            /\ UNCHANGED completed
       ELSE /\ Step(th, [Obj(th) EXCEPT !.st = "dead"])
            /\ completed' = completed \cup {Sid(th)}
    /\ UNCHANGED <<avars, pageThreads, sessions, pageUrl, browser, nextId, events, h, co, active,
                   closed>>

\* del session_timers[session_id] (129), whichever Timer the entry holds;
\* KeyError ends the thread if another thread removed the entry since 128.
T129(th) ==
    /\ Obj(th).st = "t129"
    /\ LET s == Sid(th)
       IN IF s \in Keys(session_timers)
          THEN /\ session_timers' = DictDel(session_timers, s)
               /\ strays' = IF th[1] = "tab" THEN strays
                            ELSE Orphan(strays (-) SetToBag({th[2]}), s,
                                        DictGet(session_timers, s))
               /\ completed' = completed \cup {s}
          ELSE /\ Step(th, [Obj(th) EXCEPT !.st = "dead"])
               /\ UNCHANGED completed
    /\ UNCHANGED <<avars, pageThreads, sessions, pageUrl, browser, nextId, events, h, co, active,
                   closed>>

\* A page closes on its own (renderer crash, window.close()): the registry
\* keeps its entry.
PageCrash(s) ==
    /\ s \in DOMAIN pageUrl
    /\ s \in sessions
    /\ events < MaxEvents
    /\ pageUrl' = PagesWithout(s)
    /\ events' = events + 1
    /\ UNCHANGED <<avars, pageThreads, sessions, browser, session_timers, strays, nextId, h,
                   co, active, closed, completed>>

----------------------------------------------------------------------------
\* server.py: the pieces shared by the route handlers.

\* The HTTP answer of the handler in progress.
Respond(r, status, code, body) ==
    [r EXCEPT !.pc = "done", !.status = status, !.code = code, !.body = body]

\* at_limit with the comparison of line 80 (>), and one session early.
at_limit_over(n) == n > MAX_CONCURRENT_SESSIONS
at_limit_early(n) == n >= MAX_CONCURRENT_SESSIONS - 1

\* len(session_timers) >= MAX_CONCURRENT_SESSIONS (235, 239)
at_limit(n) == n >= MAX_CONCURRENT_SESSIONS

\* len(session_timers) > MAX_CONCURRENT_SESSIONS (80)
over_limit(n) == n > MAX_CONCURRENT_SESSIONS

\* cleanup_old_sessions (75-88): the tables after the call. The request
\* thread waits for close_session in run_async.
cleanup_old_sessions ==
    IF over_limit(Len(session_timers))
    THEN LET oldest == session_timers[1].sid
             t == cancel(session_timers[1].tm)
             c == close_session(sessions, DOMAIN pageUrl, oldest)
         IN [st |-> DictDel(session_timers, oldest),
             strays |-> Orphan(strays, oldest, t),
             S |-> c.S,
             P |-> [p \in c.P |-> pageUrl[p]],
             closed |-> IF oldest \in sessions THEN closed \cup {oldest} ELSE closed,
             evicted |-> TRUE]
    ELSE [st |-> session_timers, strays |-> strays, S |-> sessions, P |-> pageUrl,
          closed |-> closed, evicted |-> FALSE]

\* is_session_valid (70-73)
is_session_valid(s) == s \in sessions

\* browser_controller.get_current_url (187-196): no await, one loop step.
get_current_url(s) ==
    IF s \in sessions /\ ~is_closed(s) THEN pageUrl[s] ELSE ""

\* Where the handler goes on after schedule_session_timeout returns.
AfterSched(op) ==
    CASE op = "start" -> "st268"
      [] op = "click" -> "ck293"
      [] OTHER -> "ss334"

\* What a request finds for its id when it arrives.
StateOf(s) ==
    IF s \notin sessions THEN "absent"
    ELSE IF is_closed(s) THEN "closed_page" ELSE "live"

\* Ids a caller can send: 0 stands for every string the program holds
\* nothing about (never handed out, or closed with no timer left), which it
\* cannot tell apart; the others are the ids of the registry, of the timer
\* table and of the running timers.
SentIds == {0} \cup sessions \cup Keys(session_timers)
           \cup {r.sid : r \in BagToSet(strays)}

----------------------------------------------------------------------------
\* schedule_session_timeout (90-145), on the request thread.

\* session_exists of a schedule_session_timeout that does not look at the
\* registry.
session_exists_unchecked(S, sid) == TRUE

\* `session_id not in browser_controller._sessions` (101), negated.
session_exists(S, sid) == sid \in S

\* if session_id not in _sessions: return (101-103);
\* if not reset_existing: cleanup_old_sessions() (106-107)
Sched101 ==
    /\ h.pc = "sc101"
    /\ IF ~session_exists(sessions, h.sid)
       THEN /\ h' = [h EXCEPT !.pc = AfterSched(h.op)]
            /\ UNCHANGED <<sessions, pageUrl, session_timers, strays, closed>>
       ELSE /\ h' = [h EXCEPT !.pc = "sc110"]
            /\ IF ~h.reset
               THEN LET c == cleanup_old_sessions
                    IN /\ session_timers' = c.st
                       /\ strays' = c.strays
                       /\ sessions' = c.S
                       /\ pageUrl' = c.P
                       /\ closed' = c.closed
               ELSE UNCHANGED <<sessions, pageUrl, session_timers, strays, closed>>
    /\ UNCHANGED avars
    /\ pageThreads' = IF h.sid \in sessions /\ ~h.reset
                          /\ cleanup_old_sessions.evicted
                     THEN pageThreads \cup {run_async("request")}
                     ELSE pageThreads
    /\ UNCHANGED <<browser, nextId, events, co, active, completed>>

\* if session_id in session_timers: (110-119)
Sched110 ==
    /\ h.pc = "sc110"
    /\ IF h.sid \in Keys(session_timers)
       THEN IF ~h.reset
            THEN LET t == DictGet(session_timers, h.sid)
                 IN /\ session_timers' = IF ~is_alive(t) /\ h.startNow
                                         THEN DictSet(session_timers, h.sid, start(t))
                                         ELSE session_timers
                    /\ h' = [h EXCEPT !.pc = AfterSched(h.op)]
            ELSE /\ h' = [h EXCEPT !.pc = "sc121"]
                 /\ UNCHANGED session_timers
       ELSE /\ h' = [h EXCEPT !.pc = "sc136"]
            /\ UNCHANGED session_timers
    /\ UNCHANGED <<avars, pageThreads, sessions, pageUrl, browser, strays, nextId, events, co,
                   active, closed, completed>>

\* cancel_existing that cancels every timer of the table.
cancel_existing_all(st, sid) ==
    [i \in DOMAIN st |-> [st[i] EXCEPT !.tm = cancel(st[i].tm)]]

\* session_timers[session_id].cancel() (121): the table with the timer of
\* sid cancelled.
cancel_existing(st, sid) == DictSet(st, sid, cancel(DictGet(st, sid)))

\* session_timers[session_id].cancel() (121): KeyError if a timer thread
\* removed the entry since line 110; the handler answers 500.
Sched121 ==
    /\ h.pc = "sc121"
    /\ IF h.sid \in Keys(session_timers)
       THEN /\ session_timers' = cancel_existing(session_timers, h.sid)
            /\ h' = [h EXCEPT !.pc = "sc136"]
       ELSE /\ h' = Respond(h, 500, "", "error")
            /\ UNCHANGED session_timers
    /\ UNCHANGED <<avars, pageThreads, sessions, pageUrl, browser, strays, nextId, events, co,
                   active, closed, completed>>

\* made_timer with start_immediately ignored: the timer always starts.
made_timer_started(start_immediately) == start(NewTimer)

\* The timer a call of schedule_session_timeout constructs (135, 139-140).
made_timer(start_immediately) ==
    IF start_immediately THEN start(NewTimer) ELSE NewTimer

\* timer = threading.Timer(..); session_timers[session_id] = timer;
\* if start_immediately: timer.start() (135-145). The object the entry held
\* before stays a thread of its own if it is running.
Sched136 ==
    /\ h.pc = "sc136"
    /\ session_timers' = DictSet(session_timers, h.sid, made_timer(h.startNow))
    /\ strays' = IF h.sid \in Keys(session_timers)
                 THEN Orphan(strays, h.sid, DictGet(session_timers, h.sid))
                 ELSE strays
    /\ h' = [h EXCEPT !.pc = AfterSched(h.op)]
    /\ UNCHANGED <<avars, pageThreads, sessions, pageUrl, browser, nextId, events, co, active,
                   closed, completed>>

----------------------------------------------------------------------------
\* POST /start (228-274) and browser_controller.start_session (59-161).

\* The least recently created of the registered sessions (ids are handed out
\* in order of creation); 0 if there is none.
Oldest(S) == IF S = {} THEN 0 ELSE CHOOSE s \in S : \A o \in S : s <= o

RecvStart ==
    /\ h.pc = "idle"
    /\ nextId <= MaxIds
    /\ events < MaxEvents
    /\ events' = events + 1
    /\ h' = [Idle EXCEPT !.pc = "st235", !.op = "start",
                         !.st0 = IF Cardinality(sessions) = MAX_CONCURRENT_SESSIONS
                                 THEN "full" ELSE "room",
                         !.oldest = Oldest(sessions)]
    /\ UNCHANGED <<avars, pageThreads, sessions, pageUrl, browser, session_timers, strays, nextId,
                   co, active, closed, completed>>

\* run_async(browser_controller.start_session(url)) (250)
SubmitStart == [pc |-> "ss_open", id |-> 0, res |-> "", tried |-> <<>>]

\* if len(session_timers) >= MAX: cleanup_old_sessions() (235-237)
Start235 ==
    /\ h.pc = "st235"
    /\ IF at_limit(Len(session_timers))
       THEN LET c == cleanup_old_sessions
            IN /\ session_timers' = c.st
               /\ strays' = c.strays
               /\ sessions' = c.S
               /\ pageUrl' = c.P
               /\ closed' = c.closed
               /\ h' = [h EXCEPT !.pc = "st239"]
               /\ co' = co
       ELSE /\ h' = [h EXCEPT !.pc = "st250"]
            /\ co' = SubmitStart
            /\ UNCHANGED <<sessions, pageUrl, session_timers, strays, closed>>
    /\ UNCHANGED avars
    /\ pageThreads' = IF at_limit(Len(session_timers))
                          /\ cleanup_old_sessions.evicted
                     THEN pageThreads \cup {run_async("request")}
                     ELSE pageThreads
    /\ UNCHANGED <<browser, nextId, events, active, completed>>

\* if len(session_timers) >= MAX: raise HTTPException(503, ..) (239-247)
Start239 ==
    /\ h.pc = "st239"
    /\ IF at_limit(Len(session_timers))
       THEN /\ h' = Respond(h, 503, "SESSION_LIMIT_EXCEEDED", "error")
            /\ co' = co
       ELSE /\ h' = [h EXCEPT !.pc = "st250"]
            /\ co' = SubmitStart
    /\ UNCHANGED <<avars, pageThreads, sessions, pageUrl, browser, session_timers, strays, nextId,
                   events, active, closed, completed>>

\* start_session up to the navigation: the browser is launched if there is
\* none, a uuid drawn, a page opened and set up (67-135).
SsOpen ==
    /\ co.pc = "ss_open"
    /\ browser' = TRUE
    /\ nextId' = nextId + 1
    /\ pageUrl' = (nextId :> "u1") @@ pageUrl
    /\ co' = [co EXCEPT !.pc = "ss_nav", !.id = nextId]
    /\ UNCHANGED avars
    /\ pageThreads' = pageThreads \cup {run_async("request")}
    /\ UNCHANGED <<sessions, session_timers, strays, events, h, active, closed,
                   completed>>

\* What the pages do to a goto in each tier: TRUE if it returns, FALSE if it
\* raises (a timeout, a network error).
NavOutcomes == [{"domcontentloaded", "load", "networkidle"} -> BOOLEAN]

\* One page.goto(url, wait_until=t, ..): the call and whether it returned.
Goto(succeeds, t) == [wait_until |-> t, returned |-> succeeds[t]]

\* The navigation with the slowest tier tried first.
goto_tiers_reversed(succeeds) ==
    LET g1 == Goto(succeeds, "networkidle")
        g2 == Goto(succeeds, "load")
        g3 == Goto(succeeds, "domcontentloaded")
    IN IF g1.returned THEN [tried |-> <<g1>>, ok |-> TRUE]
       ELSE IF g2.returned THEN [tried |-> <<g1, g2>>, ok |-> TRUE]
       ELSE [tried |-> <<g1, g2, g3>>, ok |-> g3.returned]

\* The navigation (139-157): the goto calls made, in order; the exception
\* of the last tier is re-raised (157), the others are caught (144, 149).
goto_tiers(succeeds) ==
    LET g1 == Goto(succeeds, "domcontentloaded")
        g2 == Goto(succeeds, "load")
        g3 == Goto(succeeds, "networkidle")
    IN IF g1.returned THEN [tried |-> <<g1>>, ok |-> TRUE]
       ELSE IF g2.returned THEN [tried |-> <<g1, g2>>, ok |-> TRUE]
       ELSE [tried |-> <<g1, g2, g3>>, ok |-> g3.returned]

\* The navigation (139-157) and, if a tier succeeded, the registration of
\* the page (159-161). Every goto on a page that has closed raises.
SsNav ==
    /\ co.pc = "ss_nav"
    /\ \E f \in NavOutcomes :
          LET succeeds == [t \in DOMAIN f |-> f[t] /\ ~is_closed(co.id)]
              g == goto_tiers(succeeds)
          IN IF g.ok
             THEN /\ sessions' = sessions \cup {co.id}
                  /\ co' = [co EXCEPT !.pc = "ret", !.res = "ok",
                                      !.tried = g.tried]
             ELSE /\ co' = [co EXCEPT !.pc = "ret", !.res = "raised",
                                      !.tried = g.tried]
                  /\ UNCHANGED sessions
    /\ UNCHANGED avars
    /\ pageThreads' = pageThreads \cup {run_async("request")}
    /\ UNCHANGED <<pageUrl, browser, session_timers, strays, nextId, events, h,
                   active, closed, completed>>

\* The handler after start_session: the check of 253-262, then
\* schedule_session_timeout(session_id, start_immediately=False) (267).
Start253 ==
    /\ h.pc = "st250"
    /\ co.pc = "ret"
    /\ h' = IF co.res = "raised" THEN Respond(h, 500, "", "error")
            ELSE IF co.id \notin sessions
            THEN Respond(h, 500, "SESSION_INIT_FAILED", "error")
            ELSE [h EXCEPT !.pc = "sc101", !.sid = co.id, !.reset = FALSE,
                           !.startNow = FALSE]
    /\ co' = NoCo
    /\ UNCHANGED <<avars, pageThreads, sessions, pageUrl, browser, session_timers, strays, nextId,
                   events, active, closed, completed>>

\* return {"status": "ok", .., "sessionId": session_id} (269)
StartRespond ==
    /\ h.pc = "st268"
    /\ h' = [Respond(h, 200, "", "ok") EXCEPT !.rsid = h.sid]
    /\ UNCHANGED <<avars, pageThreads, sessions, pageUrl, browser, session_timers, strays, nextId,
                   events, co, active, closed, completed>>

\* The response is sent and the request thread takes the next request.
Return ==
    /\ h.pc = "done"
    /\ h' = Idle
    /\ UNCHANGED <<avars, pageThreads, sessions, pageUrl, browser, session_timers, strays, nextId,
                   events, co, active, closed, completed>>

----------------------------------------------------------------------------
\* POST /click (276-316) and browser_controller.click_at (198-377).

RecvClick(s) ==
    /\ h.pc = "idle"
    /\ events < MaxEvents
    /\ h' = [Idle EXCEPT !.pc = "touch", !.op = "click", !.sid = s,
                         !.st0 = StateOf(s)]
    /\ active' = active \cup ({s} \cap sessions)
    /\ events' = events + 1
    /\ UNCHANGED <<avars, pageThreads, sessions, pageUrl, browser, session_timers, strays, nextId,
                   co, closed, completed>>

\* if session_id in session_timers: schedule_session_timeout(.., reset_existing=True,
\* start_immediately=True) else: schedule_session_timeout(.., reset_existing=False,
\* start_immediately=True) (286-290 and 326-330)
Touch ==
    /\ h.pc = "touch"
    /\ h' = [h EXCEPT !.pc = "sc101", !.reset = (h.sid \in Keys(session_timers)),
                      !.startNow = TRUE]
    /\ UNCHANGED <<avars, pageThreads, sessions, pageUrl, browser, session_timers, strays, nextId,
                   events, co, active, closed, completed>>

\* if not is_session_valid(session_id): raise HTTPException(410, ..) (293-302)
Click293 ==
    /\ h.pc = "ck293"
    /\ h' = IF is_session_valid(h.sid) THEN [h EXCEPT !.pc = "ck304"]
            ELSE Respond(h, 410, "SESSION_NOT_FOUND", "error")
    /\ UNCHANGED <<avars, pageThreads, sessions, pageUrl, browser, session_timers, strays, nextId,
                   events, co, active, closed, completed>>

\* old_url = run_async(get_current_url(..)); run_async(click_at(..)) (304-305)
Click304 ==
    /\ h.pc = "ck304"
    /\ h' = [h EXCEPT !.pc = "ck305", !.old_url = get_current_url(h.sid)]
    /\ co' = [pc |-> "ca204", id |-> h.sid, res |-> "", tried |-> <<>>]
    /\ UNCHANGED avars
    /\ pageThreads' = pageThreads \cup {run_async("request")}
    /\ UNCHANGED <<sessions, pageUrl, browser, session_timers, strays, nextId,
                   events, active, closed, completed>>

\* page = _sessions.get(..); if not page or page.is_closed(): return False (204-208)
Ca204 ==
    /\ co.pc = "ca204"
    /\ co' = IF co.id \notin sessions \/ is_closed(co.id)
             THEN [co EXCEPT !.pc = "ret", !.res = "false"]
             ELSE [co EXCEPT !.pc = "ca_eval"]
    /\ UNCHANGED avars
    /\ pageThreads' = pageThreads \cup {run_async("request")}
    /\ UNCHANGED <<sessions, pageUrl, browser, session_timers, strays, nextId,
                   events, h, active, closed, completed>>

\* await page.evaluate(..) (214-331): raises if the page was closed
\* meanwhile, and may raise on an open page (execution context destroyed by
\* a navigation, ..); every exception is caught and ends click_at with
\* False (373-377).
CaEval ==
    /\ co.pc = "ca_eval"
    /\ \E raises \in BOOLEAN :
          co' = IF raises \/ is_closed(co.id)
                THEN [co EXCEPT !.pc = "ret", !.res = "caught"]
                ELSE [co EXCEPT !.pc = "ca_mark"]
    /\ UNCHANGED avars
    /\ pageThreads' = pageThreads \cup {run_async("request")}
    /\ UNCHANGED <<sessions, pageUrl, browser, session_timers, strays, nextId,
                   events, h, active, closed, completed>>

\* await _show_click_indicator(..) (366)
CaMark ==
    /\ co.pc = "ca_mark"
    /\ \E raises \in BOOLEAN :
          co' = IF raises \/ is_closed(co.id)
                THEN [co EXCEPT !.pc = "ret", !.res = "caught"]
                ELSE [co EXCEPT !.pc = "ca_click"]
    /\ UNCHANGED avars
    /\ pageThreads' = pageThreads \cup {run_async("request")}
    /\ UNCHANGED <<sessions, pageUrl, browser, session_timers, strays, nextId,
                   events, h, active, closed, completed>>

\* await page.mouse.click(..); return True (369-371): the page may navigate.
CaClick ==
    /\ co.pc = "ca_click"
    /\ \E raises \in BOOLEAN :
          IF raises \/ is_closed(co.id)
          THEN /\ co' = [co EXCEPT !.pc = "ret", !.res = "caught"]
               /\ UNCHANGED pageUrl
          ELSE /\ co' = [co EXCEPT !.pc = "ret", !.res = "true"]
               /\ \E u \in Urls : pageUrl' = [pageUrl EXCEPT ![co.id] = u]
    /\ UNCHANGED avars
    /\ pageThreads' = pageThreads \cup {run_async("request")}
    /\ UNCHANGED <<sessions, browser, session_timers, strays, nextId, events, h,
                   active, closed, completed>>

\* click_status with the two answers exchanged.
click_status_flipped(old_url, new_url) ==
    IF old_url = new_url THEN "ok" ELSE "click_failed"

\* if old_url == new_url: "click_failed", else "ok" (308-311)
click_status(old_url, new_url) ==
    IF old_url = new_url THEN "click_failed" ELSE "ok"

\* new_url = run_async(get_current_url(..)) (306) and the answer (308-311).
\* What click_at returned (305) is not kept; the model records it in ca.
Click306 ==
    /\ h.pc = "ck305"
    /\ co.pc = "ret"
    /\ LET new_url == get_current_url(h.sid)
       IN h' = [Respond(h, 200, "", click_status(h.old_url, new_url))
                   EXCEPT !.new_url = new_url, !.ca = co.res]
    /\ co' = NoCo
    /\ UNCHANGED avars
    /\ pageThreads' = pageThreads \cup {run_async("request")}
    /\ UNCHANGED <<sessions, pageUrl, browser, session_timers, strays, nextId,
                   events, active, closed, completed>>

----------------------------------------------------------------------------
\* POST /screenshot (318-398) and browser_controller.take_screenshot (515-573).

RecvScreenshot(s) ==
    /\ h.pc = "idle"
    /\ events < MaxEvents
    /\ h' = [Idle EXCEPT !.pc = "touch", !.op = "screenshot", !.sid = s,
                         !.st0 = StateOf(s)]
    /\ active' = active \cup ({s} \cap sessions)
    /\ events' = events + 1
    /\ UNCHANGED <<avars, pageThreads, sessions, pageUrl, browser, session_timers, strays, nextId,
                   co, closed, completed>>

\* if not is_session_valid(..): 410; else run_async(take_screenshot(..)) (334-346)
Shot334 ==
    /\ h.pc = "ss334"
    /\ IF is_session_valid(h.sid)
       THEN /\ h' = [h EXCEPT !.pc = "ss346"]
            /\ co' = [pc |-> "ts521", id |-> h.sid, res |-> "", tried |-> <<>>]
       ELSE /\ h' = [Respond(h, 410, "SESSION_NOT_FOUND", "error")
                       EXCEPT !.ca = "invalid"]
            /\ co' = co
    /\ UNCHANGED <<avars, pageThreads, sessions, pageUrl, browser, session_timers, strays, nextId,
                   events, active, closed, completed>>

\* if not page or page.is_closed(): raise ValueError(".. not found or closed") (521-525)
Ts521 ==
    /\ co.pc = "ts521"
    /\ co' = IF co.id \notin sessions \/ is_closed(co.id)
             THEN [co EXCEPT !.pc = "ret", !.res = "notfound"]
             ELSE [co EXCEPT !.pc = "ts_a1"]
    /\ UNCHANGED avars
    /\ pageThreads' = pageThreads \cup {run_async("request")}
    /\ UNCHANGED <<sessions, pageUrl, browser, session_timers, strays, nextId,
                   events, h, active, closed, completed>>

\* The first capture, JPEG quality 60 (538-543): bytes, or TimeoutError, or
\* another exception if the page was closed meanwhile.
TsA1 ==
    /\ co.pc = "ts_a1"
    /\ IF is_closed(co.id)
       THEN co' = [co EXCEPT !.pc = "ret", !.res = "exception"]
       ELSE \E r \in {"bytes", "timeout", "exception"} :
               co' = IF r = "timeout" THEN [co EXCEPT !.pc = "ts_a2"]
                     ELSE [co EXCEPT !.pc = "ret", !.res = r]
    /\ UNCHANGED avars
    /\ pageThreads' = pageThreads \cup {run_async("request")}
    /\ UNCHANGED <<sessions, pageUrl, browser, session_timers, strays, nextId,
                   events, h, active, closed, completed>>

\* The retry, JPEG quality 40 (547-564): bytes, or ValueError("Screenshot
\* timeout ..") after a second TimeoutError, or another exception.
TsA2 ==
    /\ co.pc = "ts_a2"
    /\ IF is_closed(co.id)
       THEN co' = [co EXCEPT !.pc = "ret", !.res = "exception"]
       ELSE \E r \in {"bytes", "timeout", "exception"} :
               co' = [co EXCEPT !.pc = "ret", !.res = r]
    /\ UNCHANGED avars
    /\ pageThreads' = pageThreads \cup {run_async("request")}
    /\ UNCHANGED <<sessions, pageUrl, browser, session_timers, strays, nextId,
                   events, h, active, closed, completed>>

\* What take_screenshot ends with: the bytes, a ValueError with its message
\* (525, 564; the id in it is a uuid) or another exception (568-573).
Outcome(res) ==
    CASE res = "bytes" -> [exc |-> "none", msg |-> ""]
      [] res = "notfound" ->
            [exc |-> "ValueError", msg |-> "Session .. not found or closed"]
      [] res = "timeout" ->
            [exc |-> "ValueError", msg |-> "Screenshot timeout for session .."]
      [] OTHER -> [exc |-> "Exception", msg |-> ""]

\* "timeout" in error_msg.lower() (352)
has_timeout(msg) == msg = "Screenshot timeout for session .."

\* screenshot_answer without the test of line 352: every ValueError is
\* answered as a missing session.
screenshot_answer_no_test(r, o) ==
    CASE o.exc = "none" -> Respond(r, 200, "", "ok")
      [] o.exc = "ValueError" -> Respond(r, 410, "SESSION_NOT_FOUND", "error")
      [] OTHER -> Respond(r, 500, "", "error")

\* except ValueError (347-370), the bytes (372-384), except Exception (387-398)
screenshot_answer(r, o) ==
    CASE o.exc = "none" -> Respond(r, 200, "", "ok")
      [] o.exc = "ValueError" ->
            IF has_timeout(o.msg)
            THEN Respond(r, 504, "SCREENSHOT_TIMEOUT", "error")
            ELSE Respond(r, 410, "SESSION_NOT_FOUND", "error")
      [] OTHER -> Respond(r, 500, "", "error")

\* The answer of /screenshot (347-398); the model records in ca how
\* take_screenshot ended.
ShotRespond ==
    /\ h.pc = "ss346"
    /\ co.pc = "ret"
    /\ h' = [screenshot_answer(h, Outcome(co.res)) EXCEPT !.ca = co.res]
    /\ co' = NoCo
    /\ UNCHANGED <<avars, pageThreads, sessions, pageUrl, browser, session_timers, strays, nextId,
                   events, active, closed, completed>>

----------------------------------------------------------------------------
\* POST /extract-context (400-416) and browser_controller.extract_context (575-593).

RecvExtract(s) ==
    /\ h.pc = "idle"
    /\ h' = [Idle EXCEPT !.pc = "ex406", !.op = "extract", !.sid = s,
                         !.st0 = StateOf(s)]
    /\ co' = [pc |-> "ec580", id |-> s, res |-> "", tried |-> <<>>]
    /\ UNCHANGED <<avars, pageThreads, sessions, pageUrl, browser, session_timers, strays, nextId,
                   events, active, closed, completed>>

\* if not page or page.is_closed(): return {"error": "Session not found or closed"} (580-584)
Ec580 ==
    /\ co.pc = "ec580"
    /\ co' = IF co.id \notin sessions \/ is_closed(co.id)
             THEN [co EXCEPT !.pc = "ret", !.res = "error_dict"]
             ELSE [co EXCEPT !.pc = "ec_run"]
    /\ UNCHANGED avars
    /\ pageThreads' = pageThreads \cup {run_async("request")}
    /\ UNCHANGED <<sessions, pageUrl, browser, session_timers, strays, nextId,
                   events, h, active, closed, completed>>

\* context = await extract_semantic_context(page); an exception becomes
\* {"error": str(e)} (586-593)
EcRun ==
    /\ co.pc = "ec_run"
    /\ co' = IF is_closed(co.id)
             THEN [co EXCEPT !.pc = "ret", !.res = "error_dict"]
             ELSE [co EXCEPT !.pc = "ret", !.res = "context"]
    /\ UNCHANGED avars
    /\ pageThreads' = pageThreads \cup {run_async("request")}
    /\ UNCHANGED <<sessions, pageUrl, browser, session_timers, strays, nextId,
                   events, h, active, closed, completed>>

\* return {"status": "ok", "context": context} (406-410): whatever
\* extract_context returned, the handler answers 200 with status ok.
extract_answer(r, res) == Respond(r, 200, "", "ok")

ExtractRespond ==
    /\ h.pc = "ex406"
    /\ co.pc = "ret"
    /\ h' = extract_answer(h, co.res)
    /\ co' = NoCo
    /\ UNCHANGED <<avars, pageThreads, sessions, pageUrl, browser, session_timers, strays, nextId,
                   events, active, closed, completed>>

----------------------------------------------------------------------------
\* browser_controller.start_session up to new_page (59-117) and
\* ensure_browsers_installed (14-56), followed alone over several creates.
\* The handlers run one at a time, so one start_session is in progress at a
\* time. Whether a launch, an installation or new_page succeeds is up to the
\* machine: each may succeed or fail on its own. Browser processes are
\* numbered in the order they are launched; ln.shared lists the processes
\* that were assigned to _browser, ln.pages the process each page was opened
\* in.

\* Bound: the start_session calls followed.
MaxCreates == 3

\* `if not _browser` (73) taken at every create.
needs_launch_always(b) == TRUE

\* `if not _browser` (73)
needs_launch(b) == b = 0

InitLaunch ==
    /\ sessions = {}
    /\ pageUrl = <<>>
    /\ browser = FALSE
    /\ session_timers = <<>>
    /\ strays = EmptyBag
    /\ nextId = 1
    /\ events = 0
    /\ h = Idle
    /\ co = NoCo
    /\ active = {}
    /\ closed = {}
    /\ completed = {}
    /\ pageThreads = {}
    /\ cl = NoClick
    /\ ln = [NoLaunch EXCEPT !.pc = "idle"]
    /\ ts = NoShot

\* start_session is called; ensure_browsers_installed returns at once when
\* _browsers_installed is set (17-18).
LnBegin ==
    /\ ln.pc = "idle"
    /\ ln.creates < MaxCreates
    /\ ln' = [ln EXCEPT !.creates = @ + 1,
                        !.pc = IF ln.installed THEN "pw" ELSE "probe"]
    /\ UNCHANGED <<mvars, cl, ts>>

\* The probe of ensure_browsers_installed (20-32): a Playwright of its own
\* launches a test browser and closes it. An exception of start() ends the
\* function (54-56); one of launch() or close() leads to the installation.
LnProbe ==
    /\ ln.pc = "probe"
    /\ \E o \in {"no_playwright", "launch_failed", "close_failed", "closed"} :
          ln' = [ln EXCEPT
                   !.procs = IF o \in {"close_failed", "closed"} THEN @ + 1 ELSE @,
                   !.probes = IF o \in {"close_failed", "closed"} THEN @ + 1 ELSE @,
                   !.installed = (o = "closed"),
                   !.pc = IF o \in {"launch_failed", "close_failed"}
                          THEN "install" ELSE "pw"]
    /\ UNCHANGED <<mvars, cl, ts>>

\* python -m playwright install chromium (34-53): _browsers_installed is set
\* only for return code 0; a timeout of the subprocess is caught (54-56).
LnInstall ==
    /\ ln.pc = "install"
    /\ \E o \in {"zero", "nonzero", "raised"} :
          ln' = [ln EXCEPT !.installed = (o = "zero"), !.pc = "pw"]
    /\ UNCHANGED <<mvars, cl, ts>>

\* if not _playwright: _playwright = await async_playwright().start() (69-71)
LnPw ==
    /\ ln.pc = "pw"
    /\ IF ln.playwright
       THEN ln' = [ln EXCEPT !.pc = "launch"]
       ELSE \E ok \in BOOLEAN :
               ln' = IF ok THEN [ln EXCEPT !.playwright = TRUE, !.pc = "launch"]
                     ELSE [ln EXCEPT !.pc = "idle"]
    /\ UNCHANGED <<mvars, cl, ts>>

\* if not _browser: _browser = await _playwright.chromium.launch(..), with
\* the full arguments and then with the minimal ones; the exception of the
\* second launch is re-raised (73-112).
LnLaunch ==
    /\ ln.pc = "launch"
    /\ IF needs_launch(ln.browser)
       THEN \E o \in {"full_args", "minimal_args", "raised"} :
               ln' = IF o = "raised" THEN [ln EXCEPT !.pc = "idle"]
                     ELSE [ln EXCEPT !.procs = @ + 1,
                                     !.browser = ln.procs + 1,
                                     !.shared = Append(@, ln.procs + 1),
                                     !.pc = "page"]
       ELSE ln' = [ln EXCEPT !.pc = "page"]
    /\ UNCHANGED <<mvars, cl, ts>>

\* page = await _browser.new_page() (117); what follows is SsNav's.
LnPage ==
    /\ ln.pc = "page"
    /\ \E ok \in BOOLEAN :
          ln' = [ln EXCEPT !.pages = IF ok THEN Append(@, ln.browser) ELSE @,
                          !.pc = "idle"]
    /\ UNCHANGED <<mvars, cl, ts>>

NextLaunch ==
    \/ LnBegin
    \/ LnProbe
    \/ LnInstall
    \/ LnPw
    \/ LnLaunch
    \/ LnPage

SpecLaunch == InitLaunch /\ [][NextLaunch]_vars

----------------------------------------------------------------------------
\* browser_controller.take_screenshot (515-573) followed alone on a live
\* page, over several calls. Each page.screenshot returns the bytes, runs
\* into the timeout of asyncio.wait_for, or raises something else. Budgets
\* are in seconds. ts.attempts lists the captures of the call in progress,
\* ts.done the calls that have ended, each with how it ended: "bytes", or
\* the exception raised, "timeout" (the ValueError of 564) or "exception".

\* Bound: the take_screenshot calls followed.
MaxShots == 3

\* timeout = 20.0 if is_figma else 10.0 (531-534)
capture_timeout(is_figma) == IF is_figma THEN 20 ELSE 10

\* The timeout= of the second asyncio.wait_for (550): the same variable as
\* for the first (540).
retry_timeout(timeout) == timeout

\* A retry after every failure of the first capture.
retries_after_any_failure(outcome) == outcome # "bytes"

\* except asyncio.TimeoutError (543): the outcomes of the first capture
\* that lead to the second.
retries(outcome) == outcome = "timeout"

\* await asyncio.wait_for(page.screenshot(full_page=False, quality=q,
\* type='jpeg'), timeout=t) and how it ended.
Capture(q, t, outcome) ==
    [quality |-> q, type |-> "jpeg", timeout |-> t, outcome |-> outcome]

\* The call in progress ends with res.
ShotEnds(attempts, res) ==
    [ts EXCEPT !.pc = "idle", !.attempts = <<>>,
               !.done = Append(@, [figma |-> ts.figma, attempts |-> attempts,
                                   res |-> res])]

InitShot ==
    /\ sessions = {1}
    /\ pageUrl = (1 :> "u1")
    /\ browser = TRUE
    /\ session_timers = <<>>
    /\ strays = EmptyBag
    /\ nextId = 1
    /\ events = 0
    /\ h = Idle
    /\ co = NoCo
    /\ active = {}
    /\ closed = {}
    /\ completed = {}
    /\ pageThreads = {}
    /\ cl = NoClick
    /\ ln = NoLaunch
    /\ ts = [NoShot EXCEPT !.pc = "idle"]

\* take_screenshot is called on a live page (520-534): is_figma and timeout.
TkBegin ==
    /\ ts.pc = "idle"
    /\ Len(ts.done) < MaxShots
    /\ \E is_figma \in BOOLEAN :
          ts' = [ts EXCEPT !.pc = "a1", !.figma = is_figma,
                          !.timeout = capture_timeout(is_figma)]
    /\ UNCHANGED <<mvars, cl, ln>>

\* The first capture (537-542): its bytes are returned; a timeout leads to
\* the second capture (543-546); any other exception is re-raised (569-573).
TkA1 ==
    /\ ts.pc = "a1"
    /\ \E o \in {"bytes", "timeout", "exception"} :
          LET a == Append(ts.attempts, Capture(60, ts.timeout, o))
          IN ts' = IF o = "bytes" THEN ShotEnds(a, "bytes")
                   ELSE IF retries(o) THEN [ts EXCEPT !.pc = "a2", !.attempts = a]
                   ELSE ShotEnds(a, "exception")
    /\ UNCHANGED <<mvars, cl, ln>>

\* The second capture (547-553): its bytes are returned; a timeout leads to
\* the probe (554-556); any other exception is re-raised (569-573).
TkA2 ==
    /\ ts.pc = "a2"
    /\ \E o \in {"bytes", "timeout", "exception"} :
          LET a == Append(ts.attempts, Capture(40, retry_timeout(ts.timeout), o))
          IN ts' = IF o = "bytes" THEN ShotEnds(a, "bytes")
                   ELSE IF o = "timeout" THEN [ts EXCEPT !.pc = "probe", !.attempts = a]
                   ELSE ShotEnds(a, "exception")
    /\ UNCHANGED <<mvars, cl, ln>>

\* The probe of document.readyState (557-561), whose outcome is only
\* printed, then raise ValueError("Screenshot timeout ..") (564).
TkProbe ==
    /\ ts.pc = "probe"
    /\ ts' = ShotEnds(ts.attempts, "timeout")
    /\ UNCHANGED <<mvars, cl, ln>>

NextShot ==
    \/ TkBegin
    \/ TkA1
    \/ TkA2
    \/ TkProbe

SpecShot == InitShot /\ [][NextShot]_vars

----------------------------------------------------------------------------
\* browser_controller.click_at (198-377) followed alone on an open page: the
\* script it evaluates in the page (214-331) as operators on the document,
\* then the coroutine step by step.
\*
\* An element is [sig, r]: sig is "pointer" (cursor: pointer, an onclick
\* handler or role=button), "tag" (the highlight colour in outline, border
\* or shadow, or a BUTTON or A tag, and none of the former) or "none"; r is
\* getBoundingClientRect(), [l, t, w, h] in whole pixels. A frame is
\* [r, access, inner]: access "same" or "cross" (origin), inner the elements
\* of its document stacked at the translated point, front first.

\* Bounds of the documents tried.
MaxStack == 2    \* elements stacked at the point in the top-level document

\* What an element shows of the signals of hasBlueHighlight: "pointer" stands
\* for those both the top-level test and the frame test read (cursor
\* pointer, onclick, role=button), "tag" for those only the top-level test
\* reads (the highlight colour, the BUTTON or A tag), "none" for none.
Sigs == {"none", "tag", "pointer"}

\* Bounding boxes: two ordinary ones, one partly left of the viewport, one
\* of no width (a vertical SVG line hit on its stroke).
Rects == {[l |-> 0, t |-> 0, w |-> 8, h |-> 6],
          [l |-> 1, t |-> 1, w |-> 3, h |-> 3],
          [l |-> -5, t |-> 0, w |-> 9, h |-> 4],
          [l |-> 2, t |-> 0, w |-> 0, h |-> 4]}

Points == {<<2, 2>>, <<3, 1>>}

Contains(r, x, y) ==
    x >= r.l /\ x <= r.l + r.w /\ y >= r.t /\ y <= r.t + r.h

Elements == [sig : Sigs, r : Rects]

\* The frames tried: one that does not contain the points, a cross-origin
\* one that does, and same-origin ones that do, with no element, one
\* element of each kind, or a plain element in front of one with a pointer
\* cursor at the translated point (inner lists them front first).
FrameKinds ==
    {[r |-> [l |-> 6, t |-> 4, w |-> 2, h |-> 2], access |-> "same", inner |-> <<>>],
     [r |-> [l |-> 1, t |-> 0, w |-> 6, h |-> 5], access |-> "cross", inner |-> <<>>],
     [r |-> [l |-> 1, t |-> 0, w |-> 6, h |-> 5], access |-> "same", inner |-> <<>>]}
    \cup {[r |-> [l |-> 1, t |-> 0, w |-> 6, h |-> 5], access |-> "same",
           inner |-> <<[sig |-> g, r |-> [l |-> 0, t |-> 0, w |-> 5, h |-> 3]]>>]
          : g \in Sigs}
    \cup {[r |-> [l |-> 1, t |-> 0, w |-> 6, h |-> 5], access |-> "same",
           inner |-> <<[sig |-> "none", r |-> [l |-> 0, t |-> 0, w |-> 5, h |-> 3]],
                       [sig |-> "pointer", r |-> [l |-> 0, t |-> 0, w |-> 4, h |-> 4]]>>]}

FrameSeqs == {<<>>} \cup {<<f>> : f \in FrameKinds}
             \cup {<<f, g>> : f \in FrameKinds, g \in FrameKinds}

StackSeqs == UNION {[1 .. n -> Elements] : n \in 0 .. MaxStack}

\* Python int() of n2 / 2: truncation towards zero.
int_half(n2) == IF n2 >= 0 THEN n2 \div 2 ELSE -((-n2) \div 2)

\* hasBlueHighlight (232-243): any of the signals.
hasBlueHighlight(e) == e.sig # "none"

\* The test of line 245 with the box not looked at.
is_candidate_any_box(e) == hasBlueHighlight(e)

\* if (hasBlueHighlight && rect.width > 0 && rect.height > 0) (245)
is_candidate(e) == hasBlueHighlight(e) /\ e.r.w > 0 /\ e.r.h > 0

\* The result of the script for the element e: twice the centre of its box
\* (rect.left + rect.width / 2, rect.top + rect.height / 2).
Centre(e, clickable) ==
    [found |-> TRUE, cx2 |-> 2 * e.r.l + e.r.w, cy2 |-> 2 * e.r.t + e.r.h,
     isIframe |-> FALSE, isClickable |-> clickable]

\* The frame's test of the element at the translated point (279-283).
frame_candidate(f, x, y) ==
    /\ Contains(f.r, x, y)
    /\ f.access = "same"
    /\ f.inner # <<>>
    /\ f.inner[1].sig = "pointer"

\* iframe.contentDocument || iframe.contentWindow?.document (269) for a
\* cross-origin frame that contains the point: contentDocument is null and
\* reading contentWindow.document throws a SecurityError.
frame_throws(f, x, y) == Contains(f.r, x, y) /\ f.access = "cross"

\* The loop over the frames without its try and catch: every exception
\* thrown for a frame of T leaves the loop.
catch_none(T) == T

\* try { .. } catch (e) { continue; } around the whole body of the loop
\* (265, 305-308): of the frames T for which the body throws, those whose
\* exception leaves the loop.
catch_continue(T) == {}

\* The script ends with an exception: no candidate at the top level, and a
\* frame whose exception leaves the loop comes before every frame with a
\* candidate.
ScriptThrows(stack, frames, x, y) ==
    LET C == {i \in DOMAIN stack : is_candidate(stack[i])}
        F == {j \in DOMAIN frames : frame_candidate(frames[j], x, y)}
        E == catch_continue({j \in DOMAIN frames : frame_throws(frames[j], x, y)})
    IN /\ C = {}
       /\ \E j \in E : \A k \in F : j < k

\* The script with the frames searched before the top-level stack.
Resolve_frames_first(stack, frames, x, y) ==
    LET C == {i \in DOMAIN stack : is_candidate(stack[i])}
        F == {j \in DOMAIN frames : frame_candidate(frames[j], x, y)}
    IN IF F # {}
       THEN LET f == frames[CHOOSE j \in F : \A k \in F : j <= k]
                e == f.inner[1]
            IN [found |-> TRUE,
                cx2 |-> 2 * (f.r.l + e.r.l) + e.r.w,
                cy2 |-> 2 * (f.r.t + e.r.t) + e.r.h,
                isIframe |-> TRUE, isClickable |-> TRUE]
       ELSE IF C # {}
       THEN Centre(stack[CHOOSE i \in C : \A k \in C : i <= k], TRUE)
       ELSE IF stack # <<>>
       THEN Centre(stack[1], FALSE)
       ELSE NoInfo

\* The script (214-331): the first candidate of elementsFromPoint (221-260),
\* else the first frame with a candidate (263-309), else the element
\* elementFromPoint gives (312-327), else found: false (329).
Resolve(stack, frames, x, y) ==
    LET C == {i \in DOMAIN stack : is_candidate(stack[i])}
        F == {j \in DOMAIN frames : frame_candidate(frames[j], x, y)}
    IN IF C # {}
       THEN Centre(stack[CHOOSE i \in C : \A k \in C : i <= k], TRUE)
       ELSE IF F # {}
       THEN LET f == frames[CHOOSE j \in F : \A k \in F : j <= k]
                e == f.inner[1]
            IN [found |-> TRUE,
                cx2 |-> 2 * (f.r.l + e.r.l) + e.r.w,
                cy2 |-> 2 * (f.r.t + e.r.t) + e.r.h,
                isIframe |-> TRUE, isClickable |-> TRUE]
       ELSE IF stack # <<>>
       THEN Centre(stack[1], FALSE)
       ELSE NoInfo

\* actual_point that moves the point to the origin when nothing is found.
actual_point_origin(info, x, y) ==
    IF info.found THEN <<int_half(info.cx2), int_half(info.cy2)>> ELSE <<0, 0>>

\* actual_x, actual_y (333-339)
actual_point(info, x, y) ==
    IF info.found THEN <<int_half(info.cx2), int_half(info.cy2)>> ELSE <<x, y>>

\* click_at is called with (x, y) on an open page showing some document.
InitClick ==
    /\ sessions = {1}
    /\ pageUrl = (1 :> "u1")
    /\ browser = TRUE
    /\ session_timers = <<>>
    /\ strays = EmptyBag
    /\ nextId = 1
    /\ events = 0
    /\ h = Idle
    /\ co = NoCo
    /\ active = {}
    /\ closed = {}
    /\ completed = {}
    /\ pageThreads = {}
    /\ ln = NoLaunch
    /\ ts = NoShot
    /\ \E p \in Points, st \in StackSeqs, fr \in FrameSeqs :
          /\ \A i \in DOMAIN st : Contains(st[i].r, p[1], p[2])
          /\ (\E j \in DOMAIN fr : Contains(fr[j].r, p[1], p[2])) => st # <<>>
          /\ cl = [NoClick EXCEPT !.x = p[1], !.y = p[2], !.stack = st,
                                  !.frames = fr, !.pc = "eval"]

\* clickable_element_info = await page.evaluate(..) (214-331), then
\* actual_x, actual_y (333-339) and the test of isIframe (342). An exception
\* of the evaluation, thrown by the script or by the page for another
\* reason, ends click_at with False (373-377).
CkEval ==
    /\ cl.pc = "eval"
    /\ \E raises \in BOOLEAN :
          IF ScriptThrows(cl.stack, cl.frames, cl.x, cl.y)
          THEN cl' = [cl EXCEPT !.pc = "done", !.ret = "caught",
                               !.threw = "frame"]
          ELSE IF raises
          THEN cl' = [cl EXCEPT !.pc = "done", !.ret = "caught",
                               !.threw = "other"]
          ELSE LET info == Resolve(cl.stack, cl.frames, cl.x, cl.y)
                   a == actual_point(info, cl.x, cl.y)
               IN cl' = [cl EXCEPT !.info = info, !.ax = a[1], !.ay = a[2],
                                   !.i = 1,
                                   !.pc = IF info.found /\ info.isIframe
                                          THEN "frames" ELSE "mark"]
    /\ UNCHANGED <<mvars, ln, ts>>

\* One turn of `for iframe_handle in iframe_handles` (346-361): the handle
\* has no frame or no box, or something before the click raises, and the
\* loop goes on; or frame.mouse.click is called at the point less the
\* truncated corner of this handle's box, and raises (the loop goes on) or
\* clicks. After the last handle click_at falls through to line 366.
CkFrame ==
    /\ cl.pc = "frames"
    /\ IF cl.i > Len(cl.frames)
       THEN cl' = [cl EXCEPT !.pc = "mark"]
       ELSE \E r \in {"skip", "raises", "clicked"} :
               cl' = IF r = "clicked"
                     THEN [cl EXCEPT
                             !.clicks = Append(@, [in |-> cl.i,
                                                   x |-> cl.ax - cl.frames[cl.i].r.l,
                                                   y |-> cl.ay - cl.frames[cl.i].r.t]),
                             !.pc = "fmark"]
                     ELSE [cl EXCEPT !.i = @ + 1]
    /\ UNCHANGED <<mvars, ln, ts>>

\* await _show_click_indicator(..); return True (358-359) after a click in
\* a frame; its exception is caught by the `except: continue` of the loop.
CkFrameMark ==
    /\ cl.pc = "fmark"
    /\ \E raises \in BOOLEAN :
          cl' = IF raises
                THEN [cl EXCEPT !.pc = "frames", !.i = @ + 1]
                ELSE [cl EXCEPT !.pc = "done", !.ret = "true", !.marks = @ + 1]
    /\ UNCHANGED <<mvars, ln, ts>>

\* await _show_click_indicator(page, x, y, actual_x, actual_y) (366): one
\* page.evaluate with no try around it (379-513); its exception ends
\* click_at in the except of 373-377.
CkMark ==
    /\ cl.pc = "mark"
    /\ \E raises \in BOOLEAN :
          cl' = IF raises
                THEN [cl EXCEPT !.pc = "done", !.ret = "caught",
                                !.threw = "marker"]
                ELSE [cl EXCEPT !.pc = "click", !.marks = @ + 1]
    /\ UNCHANGED <<mvars, ln, ts>>

\* await page.mouse.click(actual_x, actual_y); return True (369-371)
CkClick ==
    /\ cl.pc = "click"
    /\ \E raises \in BOOLEAN :
          cl' = IF raises
                THEN [cl EXCEPT !.pc = "done", !.ret = "caught",
                                !.threw = "click"]
                ELSE [cl EXCEPT !.pc = "done", !.ret = "true",
                                !.clicks = Append(@, [in |-> 0, x |-> cl.ax,
                                                      y |-> cl.ay])]
    /\ UNCHANGED <<mvars, ln, ts>>

NextClick ==
    \/ CkEval
    \/ CkFrame
    \/ CkFrameMark
    \/ CkMark
    \/ CkClick

SpecClick == InitClick /\ [][NextClick]_vars

----------------------------------------------------------------------------
Next ==
    \/ RecvStart
    \/ Start235
    \/ Start239
    \/ SsOpen
    \/ SsNav
    \/ Start253
    \/ StartRespond
    \/ Sched101
    \/ Sched110
    \/ Sched121
    \/ Sched136
    \/ \E s \in SentIds : RecvClick(s)
    \/ Touch
    \/ Click293
    \/ Click304
    \/ Ca204
    \/ CaEval
    \/ CaMark
    \/ CaClick
    \/ Click306
    \/ \E s \in SentIds : RecvScreenshot(s)
    \/ Shot334
    \/ Ts521
    \/ TsA1
    \/ TsA2
    \/ ShotRespond
    \/ \E s \in SentIds : RecvExtract(s)
    \/ Ec580
    \/ EcRun
    \/ ExtractRespond
    \/ Return
    \/ \E th \in Threads : Fire(th)
    \/ \E th \in Threads : T126(th)
    \/ \E th \in Threads : CloseGet(th)
    \/ \E th \in Threads : ClosePage(th)
    \/ \E th \in Threads : CloseDel(th)
    \/ \E th \in Threads : T128(th)
    \/ \E th \in Threads : T129(th)
    \/ \E s \in DOMAIN pageUrl : PageCrash(s)

Spec == Init /\ [][Next]_vars

----------------------------------------------------------------------------
\* The capacity of the registry.

\* C1: the registry never holds more than MAX_CONCURRENT_SESSIONS sessions,
\* in any state, hence after any /start has completed, whatever requests,
\* timer firings and closes came before.
C1_RegistryWithinLimit == Cardinality(sessions) <= MAX_CONCURRENT_SESSIONS

\* A /start has just succeeded and filled the registry.
C1_Witness ==
    /\ h.pc = "done" /\ h.op = "start" /\ h.status = 200
    /\ Cardinality(sessions) = MAX_CONCURRENT_SESSIONS

\* C2: a /start received while MAX_CONCURRENT_SESSIONS sessions are live
\* evicts the least recently created one (page closed, id out of the
\* registry and of the timer table) and answers with the id of a new session.
C2_StartAtCapacityEvictsOldest ==
    (h.pc = "done" /\ h.op = "start" /\ h.st0 = "full") =>
        /\ h.status = 200
        /\ h.rsid \in sessions
        /\ h.oldest \notin sessions
        /\ h.oldest \notin Keys(session_timers)
        /\ is_closed(h.oldest)

----------------------------------------------------------------------------
\* Requests for sessions that are gone.

\* C4: a /click, /screenshot or /extract-context whose id is not in the
\* registry when the request arrives is answered 410 SESSION_NOT_FOUND.
C4_AbsentIdIsNotFound ==
    (h.pc = "done" /\ h.op \in {"click", "screenshot", "extract"}
     /\ h.st0 = "absent") =>
        (h.status = 410 /\ h.code = "SESSION_NOT_FOUND")

\* C5: a /click or /screenshot whose id is in the registry with its page
\* closed when the request arrives is answered 410 SESSION_NOT_FOUND.
C5_ClosedPageIsNotFound ==
    (h.pc = "done" /\ h.op \in {"click", "screenshot"}
     /\ h.st0 = "closed_page") =>
        (h.status = 410 /\ h.code = "SESSION_NOT_FOUND")

----------------------------------------------------------------------------
\* The idle timers.

\* The session a /start in progress is creating.
Creating(s) == h.op = "start" /\ h.pc # "done" /\ (co.id = s \/ h.sid = s)

\* C6: only sessions that received a /click or a /screenshot have a timer
\* that was ever started; a registered session that received none holds,
\* once its /start is over, a timer that was created and not started; and
\* no session is closed without having received one.
C6_TimerStartsAtFirstActivity ==
    /\ \A th \in Threads : Obj(th).st # "new" => Sid(th) \in active
    /\ \A s \in sessions \ active :
          ~Creating(s) =>
              (s \in Keys(session_timers)
               /\ DictGet(session_timers, s) = NewTimer)
    /\ closed \subseteq active

\* A session never used is still registered with its timer not started
\* while the idle timer of another session has closed that one.
C6_Witness ==
    /\ h.pc = "idle"
    /\ closed # {}
    /\ \E s \in sessions \ active : DictGet(session_timers, s) = NewTimer

\* C7: a timer that a /click or /screenshot has replaced (cancel() was
\* called on it) never closes the session.
C7_ReplacedTimerNeverCloses == \A th \in Threads : Obj(th).did # "replaced"

\* C8: once a timeout_handler has run to its end, its session id is
\* absent from the registry, and a close_session on that id afterwards
\* finds nothing: it changes neither the registry nor the pages, closes
\* nothing and raises nothing.
C8_AfterTimeoutAbsent ==
    /\ [](completed \cap sessions = {})
    /\ [](\A s \in completed :
            close_session(sessions, DOMAIN pageUrl, s)
                = [S |-> sessions, P |-> DOMAIN pageUrl, err |-> FALSE])
    /\ [][\A th \in Threads :
            (Sid(th) \in completed /\ CloseGet(th)) =>
                UNCHANGED <<sessions, pageUrl, closed, completed>>]_vars

\* A close_session ran for an id whose timeout_handler had completed.
C8_Witness ==
    \E th \in Threads : Sid(th) \in completed /\ Obj(th).did = "noop"

\* C9: close_session is idempotent: closing an id twice leaves the registry
\* and the pages as closing it once does, closing an id that is not
\* registered changes nothing, and no call raises.
C9_CloseIdempotent ==
    \A id \in 0 .. nextId :
        LET P == DOMAIN pageUrl
            once == close_session(sessions, P, id)
            twice == close_session(once.S, once.P, id)
        IN /\ ~once.err /\ ~twice.err
           /\ twice.S = once.S /\ twice.P = once.P
           /\ id \notin once.S
           /\ id \notin sessions => (once.S = sessions /\ once.P = P)

\* The registry holds a session and another one was closed before.
C9_Witness == sessions # {} /\ closed # {} /\ h.pc = "idle"

\* C10: once close_session has removed a session and the timeout_handler
\* that called it has returned, no timer of that session is pending
\* (created or counting) and the timer table holds no entry for it.
C10_CloseCancelsTimer ==
    \A s \in closed \cap completed :
        /\ s \notin Keys(session_timers)
        /\ \A th \in Threads : Sid(th) = s => Obj(th).st \notin {"new", "waiting"}

----------------------------------------------------------------------------
\* Create and close.

\* C11: create then close is a round trip on the registry: at the step of
\* start_session that registers the new id (159), a close_session of that id
\* right after gives back the registry of before the step, same ids and same
\* size, without an error; and when /start has answered with an id, closing
\* that id removes exactly it.
C11_CreateCloseRoundTrip ==
    /\ [][(co.pc = "ss_nav" /\ co'.pc = "ret" /\ co'.res = "ok") =>
            LET c == close_session(sessions', DOMAIN pageUrl', co.id)
            IN /\ ~c.err
               /\ c.S = sessions
               /\ Cardinality(c.S) = Cardinality(sessions)]_vars
    /\ []((h.pc = "done" /\ h.op = "start" /\ h.status = 200) =>
            LET c == close_session(sessions, DOMAIN pageUrl, h.rsid)
            IN /\ ~c.err
               /\ h.rsid \in sessions
               /\ c.S = sessions \ {h.rsid}
               /\ Cardinality(c.S) = Cardinality(sessions) - 1)

\* A /start has answered with a new id while other sessions are registered
\* and one was closed before.
C11_Witness ==
    /\ h.pc = "done" /\ h.op = "start" /\ h.status = 200
    /\ Cardinality(sessions) >= 2
    /\ closed # {}

----------------------------------------------------------------------------
\* Closes that race.

\* No thread is running a timeout_handler or waiting to run one for s.
Quiet(s) == \A th \in Threads : Sid(th) = s => ~is_alive(Obj(th))

C13_NoCloseDuringClick ==
    [][(h.op = "click" /\ h.pc \in {"ck304", "ck305"}) =>
          \A th \in Threads :
              (Sid(th) = h.sid /\ (CloseGet(th) \/ ClosePage(th) \/ CloseDel(th)))
                  => (sessions' = sessions /\ pageUrl' = pageUrl)]_vars

----------------------------------------------------------------------------
\* The Playwright loop.

\* C14: every call on the browser or on a page runs on the Playwright loop
\* thread: neither the request thread nor a timer thread ever calls one.
C14_PageCallsOnLoopOnly == pageThreads \subseteq {"loop"}

\* A timer has closed a session and a /screenshot has captured a page.
C14_Witness ==
    /\ pageThreads = {"loop"}
    /\ closed # {}
    /\ h.pc = "done" /\ h.op = "screenshot" /\ h.status = 200

\* The coroutines that have begun on the loop and not ended: the one the
\* request thread submitted, between its first step and its return, and the
\* close_session of a timer thread from its start to `del _sessions[..]`.
Started ==
    (IF co.pc \in {"ss_nav", "ca_eval", "ca_mark", "ca_click", "ts_a1",
                   "ts_a2", "ec_run"}
     THEN {<<"co", co.id>>} ELSE {})
    \cup {th \in Threads : Obj(th).st \in {"c175", "c177"}}

\* C15: the operations submitted to the loop run one at a time: at most one
\* of them has begun and not ended.
C15_OneOperationAtATime == Cardinality(Started) <= 1

----------------------------------------------------------------------------
\* The answers of /click.

\* C16: a /click on a session that was live when the request came and that
\* is answered 200 says click_failed exactly when the URL read before the
\* click equals the URL read after it, and ok otherwise; a /click whose two
\* URLs are equal is answered 200, not with an error.
C16_ClickStatusFollowsUrl ==
    (h.pc = "done" /\ h.op = "click" /\ h.st0 = "live") =>
        /\ h.status = 200 =>
              /\ h.body \in {"ok", "click_failed"}
              /\ h.body = "click_failed" <=> h.old_url = h.new_url
        /\ (h.ca # "" /\ h.old_url = h.new_url) => h.status = 200

\* A click was performed and the page shows the same URL as before.
C16_Witness ==
    /\ h.pc = "done" /\ h.op = "click" /\ h.st0 = "live"
    /\ h.ca = "true" /\ h.old_url # "" /\ h.old_url = h.new_url
    /\ h.body = "click_failed"

\* C17: a /click in which the lookup of the target or the pointer action
\* raised an exception is answered with an error, never with status ok or
\* click_failed.
C17_ClickExceptionIsError ==
    (h.pc = "done" /\ h.op = "click" /\ h.ca = "caught") =>
        (h.status >= 400 /\ h.body = "error")

----------------------------------------------------------------------------
\* The point click_at clicks.

\* The script ran: click_at is past page.evaluate without an exception.
Resolved == cl.pc \in {"frames", "fmark", "mark", "click"} \/ cl.ret = "true"

\* The click at (x, y) on the top-level page and no other.
OnPage(x, y) == <<[in |-> 0, x |-> x, y |-> y]>>

\* C18: when no element lies beneath the requested point the script answers
\* found: false, the point is not corrected, and the pointer action, once
\* performed, is one click on the page at exactly the requested (x, y).
C18_NoneFoundClicksRawPoint ==
    /\ (Resolved /\ cl.stack = <<>>) => ~cl.info.found
    /\ (Resolved /\ ~cl.info.found) =>
          /\ cl.ax = cl.x /\ cl.ay = cl.y
          /\ cl.ret = "true" => cl.clicks = OnPage(cl.x, cl.y)

\* click_at clicked the raw point of an empty place of a page with frames.
C18_Witness ==
    /\ cl.pc = "done" /\ cl.ret = "true"
    /\ cl.stack = <<>> /\ cl.frames # <<>>
    /\ cl.clicks = OnPage(cl.x, cl.y)

\* The pixel of the centre of the box of e.
PixelCentre(e) == <<int_half(2 * e.r.l + e.r.w), int_half(2 * e.r.t + e.r.h)>>

\* The front-most element of the stack among those of the set I of indexes.
FrontMost(I) == cl.stack[CHOOSE i \in I : \A k \in I : i <= k]

\* C19 as stated: when some element stacked at the point has a strong
\* signal, the click, once performed, is one click on the page at the
\* centre of the box of the front-most such element.
C19_ClicksFrontMostInteractive ==
    LET I == {i \in DOMAIN cl.stack : cl.stack[i].sig # "none"}
    IN (cl.ret = "true" /\ I # {}) =>
          cl.clicks = OnPage(PixelCentre(FrontMost(I))[1],
                             PixelCentre(FrontMost(I))[2])

\* C19 amended: when some element stacked at the point has a strong signal
\* and a box of positive width and height, the click, once performed, is one
\* click on the page at the centre (to the pixel) of the box of the
\* front-most such element, whatever lies in front of it; the point clicked
\* differs from the requested one whenever that centre is a pixel or more
\* away from it.
C19_ClicksFrontMostInteractiveBox ==
    LET I == {i \in DOMAIN cl.stack :
                 cl.stack[i].sig # "none" /\ cl.stack[i].r.w > 0
                 /\ cl.stack[i].r.h > 0}
    IN (Resolved /\ I # {}) =>
          LET e == FrontMost(I)
              c == PixelCentre(e)
          IN /\ cl.info.found /\ ~cl.info.isIframe
             /\ cl.ax = c[1] /\ cl.ay = c[2]
             /\ cl.ret = "true" => cl.clicks = OnPage(c[1], c[2])
             /\ (2 * e.r.l + e.r.w >= 2 * cl.x + 2
                 \/ 2 * e.r.l + e.r.w <= 2 * cl.x - 2
                 \/ 2 * e.r.t + e.r.h >= 2 * cl.y + 2
                 \/ 2 * e.r.t + e.r.h <= 2 * cl.y - 2)
                    => <<cl.ax, cl.ay>> # <<cl.x, cl.y>>

\* click_at clicked the centre of an interactive element that lies behind
\* an element without a signal, away from the requested point.
C19_Witness ==
    /\ cl.pc = "done" /\ cl.ret = "true"
    /\ Len(cl.stack) = 2
    /\ cl.stack[1].sig = "none" /\ cl.stack[2].sig # "none"
    /\ cl.clicks = OnPage(PixelCentre(cl.stack[2])[1], PixelCentre(cl.stack[2])[2])
    /\ cl.clicks # OnPage(cl.x, cl.y)
    /\ PixelCentre(cl.stack[2]) # PixelCentre(cl.stack[1])

----------------------------------------------------------------------------
\* The answers of /screenshot.

\* C20: /screenshot answers 504 SCREENSHOT_TIMEOUT exactly when both
\* captures timed out, 410 SESSION_NOT_FOUND exactly when its validity check
\* (334) or take_screenshot (521) found the session missing or its page
\* closed, 200 exactly when a capture gave the bytes, and a plain 500 for
\* every other failure (an exception of a capture, or of the handler before
\* the capture).
C20_ScreenshotFailuresClassified ==
    (h.pc = "done" /\ h.op = "screenshot") =>
        /\ h.status \in {200, 410, 500, 504}
        /\ h.status = 504 <=> h.ca = "timeout"
        /\ h.status = 504 <=> h.code = "SCREENSHOT_TIMEOUT"
        /\ h.status = 410 <=> h.ca \in {"invalid", "notfound"}
        /\ h.status = 410 <=> h.code = "SESSION_NOT_FOUND"
        /\ h.status = 200 <=> h.ca = "bytes"
        /\ h.status = 500 <=> h.ca \in {"exception", ""}
        /\ h.st0 = "absent" => h.status = 410

\* A /screenshot ended in a timeout of both captures of a live session.
C20_Witness ==
    /\ h.pc = "done" /\ h.op = "screenshot" /\ h.st0 = "live"
    /\ h.status = 504 /\ h.ca = "timeout" /\ h.sid \in sessions

----------------------------------------------------------------------------
\* Navigation tiers of start_session.

----------------------------------------------------------------------------
\* The shared browser.

\* C23: the shared browser is launched by the first create that gets that
\* far and at most once: no browser process exists before the first
\* start_session, _browser is set at most once and never changes after, every
\* page is opened in that one browser, and a start_session that finds
\* _browser set launches no browser for _browser.
C23_BrowserLaunchedOnce ==
    /\ [](/\ ln.creates = 0 => (ln.procs = 0 /\ ln.browser = 0)
          /\ Len(ln.shared) <= 1
          /\ ln.browser # 0 => ln.shared = <<ln.browser>>
          /\ \A i \in DOMAIN ln.pages : ln.pages[i] = ln.shared[1])
    /\ [][ln.browser # 0 =>
            (ln'.browser = ln.browser /\ ln'.shared = ln.shared)]_vars

\* A third start_session has opened its page in the browser that the first
\* one launched.
C23_Witness ==
    /\ ln.pc = "idle"
    /\ ln.creates = 3
    /\ Len(ln.pages) = 3
    /\ ln.probes >= 1

----------------------------------------------------------------------------
\* The order of the steps of the resolver.

\* The first frame, in document order, of the set J of indexes.
FirstFrame(J) == cl.frames[CHOOSE j \in J : \A k \in J : j <= k]

\* The frames in which the script finds a candidate.
FrameCandidates ==
    {j \in DOMAIN cl.frames : frame_candidate(cl.frames[j], cl.x, cl.y)}

\* What the resolver answers when its steps are taken in order over the
\* top-level elements of the set I of indexes: the front-most of them; with
\* none, the candidate of the first frame that has one; with none, the
\* front element at the point, as a generic element; with no element at the
\* point, none found.
InPriority(I) ==
    IF I # {}
    THEN /\ cl.info.found /\ cl.info.isClickable /\ ~cl.info.isIframe
         /\ <<cl.ax, cl.ay>> = PixelCentre(FrontMost(I))
    ELSE IF FrameCandidates # {}
    THEN LET f == FirstFrame(FrameCandidates)
             e == f.inner[1]
         IN /\ cl.info.found /\ cl.info.isClickable /\ cl.info.isIframe
            /\ cl.ax = int_half(2 * (f.r.l + e.r.l) + e.r.w)
            /\ cl.ay = int_half(2 * (f.r.t + e.r.t) + e.r.h)
    ELSE IF cl.stack # <<>>
    THEN /\ cl.info.found /\ ~cl.info.isClickable /\ ~cl.info.isIframe
         /\ <<cl.ax, cl.ay>> = PixelCentre(cl.stack[1])
    ELSE /\ ~cl.info.found
         /\ <<cl.ax, cl.ay>> = <<cl.x, cl.y>>

\* C24 as stated: the steps are taken in order over the top-level elements
\* that have an interactivity signal: such an element beats every frame
\* candidate, a frame candidate beats the generic fallback, the fallback
\* gives the centre of the front element, and none found is answered only
\* when no element is at the point.
C24_ResolverPriority ==
    Resolved =>
       /\ InPriority({i \in DOMAIN cl.stack : cl.stack[i].sig # "none"})
       /\ ~cl.info.found <=> cl.stack = <<>>

\* C24 amended: the same order, over the top-level elements that have an
\* interactivity signal and a box of positive width and height.
C24_ResolverPriorityBox ==
    Resolved =>
       /\ InPriority({i \in DOMAIN cl.stack :
                         cl.stack[i].sig # "none" /\ cl.stack[i].r.w > 0
                         /\ cl.stack[i].r.h > 0})
       /\ ~cl.info.found <=> cl.stack = <<>>

\* click_at has resolved to an interactive element of the top-level stack
\* that lies behind a plain element, on a page with a frame that holds a
\* candidate at the point.
C24_Witness ==
    /\ Resolved
    /\ Len(cl.stack) = 2
    /\ cl.stack[1].sig = "none" /\ cl.stack[2].sig # "none"
    /\ FrameCandidates # {}
    /\ cl.info.found /\ ~cl.info.isIframe /\ cl.info.isClickable
    /\ <<cl.ax, cl.ay>> = PixelCentre(cl.stack[2])
    /\ PixelCentre(cl.stack[2]) # PixelCentre(cl.stack[1])

\* C25: when step 1 found nothing at the top level, a same-origin frame
\* that contains the point and has, stacked at the translated point, an
\* element with any of the signals of step 1 makes the resolver answer an
\* interactive candidate inside a frame.
C25_FrameRepeatsStepOne ==
    (/\ Resolved
     /\ \A i \in DOMAIN cl.stack : cl.stack[i].sig = "none"
     /\ \E j \in DOMAIN cl.frames :
           /\ cl.frames[j].access = "same"
           /\ Contains(cl.frames[j].r, cl.x, cl.y)
           /\ \E k \in DOMAIN cl.frames[j].inner :
                 cl.frames[j].inner[k].sig # "none")
        => (cl.info.found /\ cl.info.isIframe /\ cl.info.isClickable)

\* The cross-origin frames that contain the point.
CrossAtPoint ==
    {j \in DOMAIN cl.frames :
        cl.frames[j].access = "cross" /\ Contains(cl.frames[j].r, cl.x, cl.y)}

\* C26: a cross-origin frame that contains the point is skipped without an
\* error: the evaluation does not end with an exception because of it, and
\* the answer is that of the remaining steps: the candidate of the first
\* other frame that has one, else the generic fallback.
C26_CrossOriginFrameSkipped ==
    (cl.pc # "eval" /\ CrossAtPoint # {}) =>
       /\ cl.threw # "frame"
       /\ Resolved =>
             InPriority({i \in DOMAIN cl.stack :
                           cl.stack[i].sig # "none" /\ cl.stack[i].r.w > 0
                           /\ cl.stack[i].r.h > 0})

\* click_at has clicked after the resolver passed over a cross-origin frame
\* at the point and answered the generic fallback.
C26_Witness ==
    /\ cl.pc = "done" /\ cl.ret = "true"
    /\ 1 \in CrossAtPoint
    /\ Len(cl.frames) = 2
    /\ cl.info.found /\ ~cl.info.isClickable
    /\ cl.clicks = OnPage(PixelCentre(cl.stack[1])[1], PixelCentre(cl.stack[1])[2])

----------------------------------------------------------------------------
\* Where the pointer action is performed.

\* C27: when the resolver answered a candidate inside a frame, the pointer
\* action, once performed, is one click inside the frame that holds the
\* candidate (the first frame, in document order, with one), at the centre
\* of the candidate in that frame's coordinates; otherwise it is one click
\* on the top-level page at the resolved or raw point.
C27_ClickInsideCandidateFrame ==
    cl.ret = "true" =>
       IF cl.info.found /\ cl.info.isIframe
       THEN LET j == CHOOSE j \in FrameCandidates :
                        \A k \in FrameCandidates : j <= k
                e == cl.frames[j].inner[1]
            IN cl.clicks = <<[in |-> j, x |-> PixelCentre(e)[1],
                              y |-> PixelCentre(e)[2]]>>
       ELSE cl.clicks = OnPage(cl.ax, cl.ay)

\* C28: the marker never blocks the action: when click_at has ended, the
\* lookup found a target and the pointer action itself did not raise, the
\* pointer action was performed, whether or not the marker could be drawn.
C28_MarkerNeverBlocksClick ==
    (/\ cl.pc = "done"
     /\ cl.info.found
     /\ cl.threw \notin {"frame", "other", "click"})
        => cl.clicks # <<>>

----------------------------------------------------------------------------
\* The captures of take_screenshot.

\* The captures of every call, ended or in progress.
ShotCalls ==
    {ts.done[i] : i \in DOMAIN ts.done}
    \cup (IF ts.pc \in {"a2", "probe"}
          THEN {[figma |-> ts.figma, attempts |-> ts.attempts, res |-> ""]}
          ELSE {})

\* C29: a call of take_screenshot makes at most two captures: the first at
\* JPEG quality 60; a second, at JPEG quality 40, only after the first timed
\* out; the bytes of a first capture are returned with no second capture;
\* and the timeout error is raised exactly when both captures timed out.
C29_AtMostTwoCaptures ==
    \A c \in ShotCalls :
       LET a == c.attempts
       IN /\ Len(a) \in 1..2
          /\ \A i \in DOMAIN a : a[i].type = "jpeg"
          /\ a[1].quality = 60
          /\ Len(a) = 2 => (a[1].outcome = "timeout" /\ a[2].quality = 40)
          /\ a[1].outcome = "bytes" => (Len(a) = 1 /\ c.res = "bytes")
          /\ c.res = "timeout" <=>
                (/\ c.res # ""
                 /\ Len(a) = 2
                 /\ a[1].outcome = "timeout"
                 /\ a[2].outcome = "timeout")

\* One call returned the bytes of its second capture, another raised the
\* timeout error after two captures, a third returned its first capture.
C29_Witness ==
    /\ \E c \in ShotCalls : c.res = "bytes" /\ Len(c.attempts) = 2
    /\ \E c \in ShotCalls : c.res = "timeout" /\ Len(c.attempts) = 2
    /\ \E c \in ShotCalls : c.res = "bytes" /\ Len(c.attempts) = 1

\* C30: the budget of the second capture is strictly shorter than the
\* budget of the first, for figma pages and for the others.
C30_RetryBudgetShorter ==
    \A c \in ShotCalls :
       Len(c.attempts) = 2 => c.attempts[2].timeout < c.attempts[1].timeout

----------------------------------------------------------------------------
\* The pointer actions of one click_at.

----------------------------------------------------------------------------
\* The answer of /click and what click_at did.

\* C32: /click answers status ok only if click_at performed the pointer
\* action (returned True) during the request.
C32_OkOnlyIfClicked ==
    (h.pc = "done" /\ h.op = "click" /\ h.status = 200 /\ h.body = "ok") =>
       h.ca = "true"

----------------------------------------------------------------------------
\* The timer table and the registry.

\* No timer thread is inside timeout_handler or about to enter it.
NoCallbackRunning ==
    \A th \in Threads :
        Obj(th).st \notin {"fired", "c168", "c175", "c177", "t128", "t129"}

\* C33: whenever no handler and no timer callback is in the middle of its
\* execution, the ids of session_timers are exactly the ids of _sessions.
C33_TimerTableMatchesRegistry ==
    (h.pc = "idle" /\ NoCallbackRunning) => Keys(session_timers) = sessions

\* A timer that was started, has not been cancelled and has not fired.
Armed(t) == t.st = "waiting" /\ ~t.cancelled

\* The armed timers of session s: the entry of the table and the objects
\* the table no longer holds, each counted.
ArmedCount(s) ==
    (IF s \in Keys(session_timers) /\ Armed(DictGet(session_timers, s))
     THEN 1 ELSE 0)
    + BagCardinality([r \in {q \in BagToSet(strays) :
                                q.sid = s /\ Armed(Unstray(q))} |->
                         CopiesIn(r, strays)])

\* C34: each session id has at most one armed idle timer, and an armed timer
\* is always the object session_timers holds for its id.
C34_OneArmedTimerInTable ==
    /\ \A s \in 1..MaxIds : ArmedCount(s) <= 1
    /\ \A r \in BagToSet(strays) : ~Armed(Unstray(r))

----------------------------------------------------------------------------
\* The pages and the registry.

\* C35: once a start_session has ended, by returning or by raising, every
\* open page is the page of a registered session: a start_session that
\* fails leaves no page open outside the registry.
C35_NoPageOutsideRegistry ==
    (co.pc \notin {"ss_open", "ss_nav"}) => DOMAIN pageUrl \subseteq sessions

----------------------------------------------------------------------------
\* The idle timeout as a progress property.

\* A step of a Timer thread: the expiry of the interval and the lines of
\* timeout_handler and of the close_session it calls.
TimerStep ==
    \E th \in Threads :
        \/ Fire(th) \/ T126(th) \/ CloseGet(th) \/ ClosePage(th)
        \/ CloseDel(th) \/ T128(th) \/ T129(th)

\* A step of the request thread inside a handler, or of the coroutine it
\* waits for on the Playwright loop.
HandlerStep ==
    \/ Start235 \/ Start239 \/ SsOpen \/ SsNav \/ Start253 \/ StartRespond
    \/ Sched101 \/ Sched110 \/ Sched121 \/ Sched136
    \/ Touch \/ Click293 \/ Click304 \/ Ca204 \/ CaEval \/ CaMark \/ CaClick
    \/ Click306
    \/ Shot334 \/ Ts521 \/ TsA1 \/ TsA2 \/ ShotRespond
    \/ Ec580 \/ EcRun \/ ExtractRespond
    \/ Return

\* The server with its threads scheduled: a timer thread that can take a
\* step takes one, and so does the request thread inside a handler. The
\* arrival of requests and the crash of a page are left to the environment.
SpecFair == Init /\ [][Next]_vars /\ WF_vars(TimerStep) /\ WF_vars(HandlerStep)

\* A request naming session s is being handled.
RequestFor(s) == h.pc # "idle" /\ h.sid = s

\* C36: with the timers firing fairly, a session that receives no further
\* request is eventually removed from the registry, also one that never
\* received a /click or /screenshot (stated for the first session created;
\* a run in which the bound on the events stops the timers is set aside).
C36_IdleSessionEventuallyRemoved ==
    [](1 \in sessions =>
          <>(1 \notin sessions \/ RequestFor(1) \/ events = MaxEvents))

----------------------------------------------------------------------------
\* What a request does to the sessions it does not name.

\* The requests that name a session.
SessionOps == {"click", "screenshot", "extract"}

\* A step of the request thread, or of the coroutine it waits for, in a
\* request that names a session: the arrival of the request, the lines of
\* its handler and the return.
SessionRequestStep ==
    /\ <<h, co>>' # <<h, co>>
    /\ h.op \in SessionOps \/ h'.op \in SessionOps

\* The session named by the request in progress.
Named == IF h.pc = "idle" THEN h'.sid ELSE h.sid

\* Session s is after the step what it was before: in the registry or not,
\* its page and the URL it shows, its entry of session_timers, and its
\* timers outside the table with their state.
Untouched(s) ==
    /\ (s \in sessions') = (s \in sessions)
    /\ (s \in DOMAIN pageUrl') = (s \in DOMAIN pageUrl)
    /\ s \in DOMAIN pageUrl => pageUrl'[s] = pageUrl[s]
    /\ (s \in Keys(session_timers')) = (s \in Keys(session_timers))
    /\ s \in Keys(session_timers) =>
           DictGet(session_timers', s) = DictGet(session_timers, s)
    /\ \A r \in BagToSet(strays) \cup BagToSet(strays') :
           r.sid = s => CopiesIn(r, strays') = CopiesIn(r, strays)

\* C37: no step of a /click, /screenshot or /extract-context that names
\* session s changes another session: its membership of the registry, its
\* page, its timer entry and the state of its timers stay as they were.
C37_OtherSessionsUntouched ==
    [][SessionRequestStep =>
          \A s \in (1..MaxIds) \ {Named} : Untouched(s)]_vars

\* A /click on a live session has clicked and been answered while another
\* session is registered with a timer waiting for it.
C37_Witness ==
    /\ h.pc = "done" /\ h.op = "click" /\ h.status = 200 /\ h.ca = "true"
    /\ h.reset
    /\ \E s \in sessions \ {h.sid} :
          /\ s \in Keys(session_timers)
          /\ DictGet(session_timers, s).st = "waiting"

\* The request the step belongs to: the one arriving, or the one in progress.
StepRequest == IF h.pc = "idle" THEN h' ELSE h

\* C38: a /click, /screenshot or /extract-context whose id is not in the
\* registry changes nothing: no step of it writes the registry, a page, the
\* browser, the timer table or a timer.
C38_UnknownIdChangesNothing ==
    [][(SessionRequestStep /\ StepRequest.st0 = "absent") =>
          UNCHANGED <<sessions, pageUrl, browser, session_timers, strays>>]_vars

\* A /click or /screenshot for an id the registry does not hold has been
\* answered 410 while a session is registered and the timer table is not empty.
C38_Witness ==
    /\ h.pc = "done" /\ h.op \in {"click", "screenshot"}
    /\ h.st0 = "absent" /\ h.status = 410
    /\ sessions # {}
    /\ Keys(session_timers) # {}

----------------------------------------------------------------------------
\* A timer callback during a request for its session.

\* C39: a /click or /screenshot that races with the timer callback of its
\* session ends with its normal answer or with 410 SESSION_NOT_FOUND: a
\* request that ended before it called click_at or take_screenshot (ca is
\* still empty) was not answered 500.
C39_NoUnclassifiedErrorFromTimer ==
    (h.pc = "done" /\ h.op \in {"click", "screenshot"} /\ h.ca = "") =>
        h.status # 500

====
